---- MODULE Spec2Model ----
(***************************************************************************)
(* A model of src/ip.c: the dotted-decimal address codec (ip_addr_pton,    *)
(* ip_addr_ntop), the interface registry (ip_iface_alloc,                  *)
(* ip_iface_register, ip_iface_select) and the ingress handler ip_input.   *)
(*                                                                         *)
(* An ip_addr_t is modelled by its four bytes in memory order,             *)
(* <<u8[0], u8[1], u8[2], u8[3]>>: the code only ever compares addresses   *)
(* for equality, combines them bitwise and indexes their bytes, and all of *)
(* these are the same on the byte tuple whatever the host's byte order.    *)
(* A C string is the sequence of its characters (one-character strings)    *)
(* before the terminating NUL.  A pointer to an interface is its index in  *)
(* the heap `pool`, NULL is 0.                                             *)
(***************************************************************************)
EXTENDS Integers, Sequences, FiniteSets, TLC

VARIABLES
  pool,        \* the heap: every struct ip_iface that ip_iface_alloc returned
  dev_ifaces,  \* dev->ifaces of every net_device: head of its interface list
  ifaces,      \* the file-static list head `ifaces` of ip.c
  regs,        \* log of the ip_iface_register calls made, oldest first
  input,       \* what the caller is about to hand over: a text, an address, a frame
  last         \* the call made last: its arguments, result and diagnostics

vars == <<pool, dev_ifaces, ifaces, regs, input, last>>

(***************************************************************************)
(* Bounds of the model.                                                    *)
(***************************************************************************)
MaxSegs == 5      \* '.'-separated segments of a text handed to ip_addr_pton
MaxIfaces == 2    \* interfaces ever allocated
MaxRegs == 2      \* ip_iface_register calls ever made
MaxLen == 23      \* largest received length handed to ip_input

(***************************************************************************)
(* Constants of the program.                                               *)
(***************************************************************************)
NULL == 0
IP_VERSION_IPV4 == 4
IP_HDR_SIZE_MIN == 20
IP_ADDR_STR_LEN == 16
IP_ADDR_ANY == <<0, 0, 0, 0>>
IP_ADDR_BROADCAST == <<255, 255, 255, 255>>
NET_IFACE_FAMILY_IP == "NET_IFACE_FAMILY_IP"

Min(a, b) == IF a < b THEN a ELSE b

(***************************************************************************)
(* Bit operations on bytes and on 16-bit words.                            *)
(***************************************************************************)
RECURSIVE BitAnd(_, _)
BitAnd(a, b) ==
  IF a = 0 \/ b = 0 THEN 0
  ELSE (a % 2) * (b % 2) + 2 * BitAnd(a \div 2, b \div 2)

BitOr(a, b) == a + b - BitAnd(a, b)

BitNot8(a) == 255 - a

AddrAnd(a, b) == [i \in 1..4 |-> BitAnd(a[i], b[i])]
AddrOr(a, b) == [i \in 1..4 |-> BitOr(a[i], b[i])]
AddrNot(a) == [i \in 1..4 |-> BitNot8(a[i])]

(***************************************************************************)
(* C strings and strtol(nptr, &endptr, 10).  Positions are 1-based; the    *)
(* position Len(s) + 1 holds the terminating NUL.                          *)
(***************************************************************************)
NUL == "NUL"
Digits == <<"0", "1", "2", "3", "4", "5", "6", "7", "8", "9">>
DigitChars == {Digits[i] : i \in 1..10}
SpaceChars == {" ", "\t", "\n", "\r"}

CharAt(s, i) == IF i >= 1 /\ i <= Len(s) THEN s[i] ELSE NUL

DigitVal(c) == (CHOOSE i \in 1..10 : Digits[i] = c) - 1

RECURSIVE SkipSpace(_, _)
SkipSpace(s, i) ==
  IF CharAt(s, i) \in SpaceChars THEN SkipSpace(s, i + 1) ELSE i

RECURSIVE SkipDigits(_, _)
SkipDigits(s, i) ==
  IF CharAt(s, i) \in DigitChars THEN SkipDigits(s, i + 1) ELSE i

\* the value of the digits s[i..j], as strtol accumulates it
RECURSIVE DigitsVal(_, _, _)
DigitsVal(s, i, j) ==
  IF j < i THEN 0 ELSE 10 * DigitsVal(s, i, j - 1) + DigitVal(s[j])

\* strtol(sp, &ep, 10): optional white space, an optional sign, then digits;
\* with no digit at all it returns 0 and sets ep to sp.
strtol(s, sp) ==
  LET i0 == SkipSpace(s, sp)
      sign == CharAt(s, i0)
      i1 == IF sign \in {"+", "-"} THEN i0 + 1 ELSE i0
      i2 == SkipDigits(s, i1)
  IN IF i2 = i1
       THEN [ret |-> 0, ep |-> sp]
       ELSE [ret |-> IF sign = "-" THEN 0 - DigitsVal(s, i1, i2 - 1)
                                     ELSE DigitsVal(s, i1, i2 - 1),
             ep |-> i2]

(***************************************************************************)
(* ip_addr_pton: the loop over idx = 0..3.  n is the caller's ip_addr_t,   *)
(* written one byte per parsed segment.                                    *)
(***************************************************************************)
\* the terminator test of line 48
SegmentEnd(idx, c) == (idx = 3 /\ c # NUL) \/ (idx # 3 /\ c # ".")

\* the store of line 52
StoreOctet(n, idx, ret) == [n EXCEPT ![idx + 1] = ret]

RECURSIVE pton_loop(_, _, _, _)
pton_loop(s, sp, idx, n) ==
  IF idx >= 4 THEN [ret |-> 0, n |-> n]
  ELSE LET r == strtol(s, sp)
       IN IF r.ret < 0 \/ r.ret > 255 THEN [ret |-> -1, n |-> n]
          ELSE IF r.ep = sp THEN [ret |-> -1, n |-> n]
          ELSE IF SegmentEnd(idx, CharAt(s, r.ep)) THEN [ret |-> -1, n |-> n]
          ELSE pton_loop(s, r.ep + 1, idx + 1, StoreOctet(n, idx, r.ret))

ip_addr_pton(p, n) == pton_loop(p, 1, 0, n)

(***************************************************************************)
(* ip_addr_ntop: snprintf(p, size, "%d.%d.%d.%d", u8[0..3]) writes at most  *)
(* size - 1 characters of the rendering, then the NUL.                     *)
(***************************************************************************)
RECURSIVE Dec(_)
Dec(v) == IF v < 10 THEN <<Digits[v + 1]>>
          ELSE Dec(v \div 10) \o <<Digits[(v % 10) + 1]>>

Render(n) == Dec(n[1]) \o <<".">> \o Dec(n[2]) \o <<".">> \o Dec(n[3])
             \o <<".">> \o Dec(n[4])

\* snprintf keeping one character too few: the buffer taken as a byte shorter
snprintf_OneShort(size, full) == SubSeq(full, 1, Min(Len(full), size - 2))

snprintf(size, full) == SubSeq(full, 1, Min(Len(full), size - 1))

ip_addr_ntop(n, size) == snprintf(size, Render(n))

(***************************************************************************)
(* The registry as ip.c leaves it at start-up: nothing allocated, no       *)
(* device has an interface, the static list `ifaces` is empty.             *)
(***************************************************************************)
Devices == {"net0", "net1"}

NoInput == [kind |-> "none"]
NoCall == [op |-> "none"]

InitRegistry ==
  /\ pool = <<>>
  /\ dev_ifaces = [d \in Devices |-> NULL]
  /\ ifaces = NULL
  /\ regs = <<>>
  /\ last = NoCall

(***************************************************************************)
(* The codec on its own: an input awaits (a text, or an address and a      *)
(* buffer size), ip_addr_pton parses the text, ip_addr_ntop renders the    *)
(* address into the text that ip_addr_pton then parses back.               *)
(***************************************************************************)
\* contents of an ip_addr_t nothing has been stored into yet (never read)
Uninit == <<-1, -1, -1, -1>>

RECURSIVE Join(_)
Join(segs) ==
  IF Len(segs) = 0 THEN <<>>
  ELSE IF Len(segs) = 1 THEN segs[1]
  ELSE segs[1] \o <<".">> \o Join(Tail(segs))

Segments ==
  { <<>>, <<"0">>, <<"2", "5", "5">>, <<"2", "5", "6">>, <<"+", "1">>,
    <<"-", "1">>, <<" ", "1">>, <<"1", "x">> }

Octets == {0, 9, 10, 99, 100, 255}
Addrs == { <<a, b, c, d>> : a \in Octets, b \in Octets, c \in Octets, d \in Octets }
Sizes == {1, 8, 15, IP_ADDR_STR_LEN, IP_ADDR_STR_LEN + 1}

\* a text to parse; `from` and `size` say which ip_addr_ntop call wrote it
TextInput(t, from, size) == [kind |-> "text", p |-> t, from |-> from, size |-> size]

AddrInput(a, z) == [kind |-> "addr", a |-> a, size |-> z]

InitCodec ==
  /\ InitRegistry
  /\ \/ \E k \in 0..MaxSegs : \E f \in [1..k -> Segments] :
          input = TextInput(Join(f), Uninit, 0)
     \/ \E a \in Addrs, z \in Sizes : input = AddrInput(a, z)

\* ip_addr_pton(p, &n) on the awaiting text
call_pton ==
  /\ input.kind = "text"
  /\ LET r == ip_addr_pton(input.p, Uninit)
     IN last' = [op |-> "ip_addr_pton", p |-> input.p, from |-> input.from,
                 size |-> input.size, ret |-> r.ret, n |-> r.n]
  /\ input' = NoInput
  /\ UNCHANGED <<pool, dev_ifaces, ifaces, regs>>

\* ip_addr_ntop(a, p, size) on the awaiting address; the text it wrote awaits
call_ntop ==
  /\ input.kind = "addr"
  /\ LET p == ip_addr_ntop(input.a, input.size)
     IN /\ last' = [op |-> "ip_addr_ntop", a |-> input.a, size |-> input.size,
                    p |-> p]
        /\ input' = TextInput(p, input.a, input.size)
  /\ UNCHANGED <<pool, dev_ifaces, ifaces, regs>>

NextCodec == call_pton \/ call_ntop

SpecCodec == InitCodec /\ [][NextCodec]_vars

(***************************************************************************)
(* The dotted-decimal texts of the address format: four segments of        *)
(* decimal digits only, each in 0..255, separated by single '.'.           *)
(***************************************************************************)
RECURSIVE Split(_, _)
\* the '.'-separated segments of s, the current one being cur
Split(s, cur) ==
  IF Len(s) = 0 THEN <<cur>>
  ELSE IF Head(s) = "." THEN <<cur>> \o Split(Tail(s), <<>>)
  ELSE Split(Tail(s), Append(cur, Head(s)))

DecimalOctet(seg) ==
  /\ Len(seg) >= 1
  /\ \A i \in 1..Len(seg) : seg[i] \in DigitChars
  /\ DigitsVal(seg, 1, Len(seg)) \in 0..255

DottedDecimal(s) ==
  LET segs == Split(s, <<>>)
  IN Len(segs) = 4 /\ \A i \in 1..4 : DecimalOctet(segs[i])

\* C7: ip_addr_pton returns 0 exactly on the dotted-decimal texts (four
\* segments of one or more digits, each in [0,255], single '.' between them,
\* end of input after the fourth) and -1 on every other text.
C7_PtonExactlyDottedDecimal ==
  (last.op = "ip_addr_pton" /\ last.from = Uninit) =>
    /\ last.ret \in {0, -1}
    /\ (last.ret = 0) <=> DottedDecimal(last.p)

\* The part of C7 that the code does keep: each of the six texts the claim
\* lists (with 0 for the octets that do not matter) is refused.
C7_ListedTextsRefused ==
  (last.op = "ip_addr_pton" /\
   last.p \in { Join(<<<<"2","5","6">>, <<"0">>, <<"0">>, <<"0">>>>),
                Join(<<<<"0">>, <<"0">>, <<"0">>>>),
                Join(<<<<"0">>, <<"0">>, <<"0">>, <<"0">>, <<"0">>>>),
                Join(<<<<"0">>, <<>>, <<"0">>, <<"0">>>>),
                Join(<<<<"0">>, <<"0">>, <<"0">>, <<"1", "x">>>>),
                <<>> })
    => last.ret = -1

\* C8: an address rendered by ip_addr_ntop into a buffer of at least 16 bytes
\* and parsed back by ip_addr_pton gives success and the same four octets.
C8_RoundTrip ==
  (last.op = "ip_addr_pton" /\ last.from # Uninit /\ last.size >= IP_ADDR_STR_LEN)
    => (last.ret = 0 /\ last.n = last.from)

\* C8's case: the longest rendering, 255.255.255.255, went through both calls
\* with a buffer of exactly 16 bytes.
C8_Witness ==
  /\ last.op = "ip_addr_pton"
  /\ last.from = IP_ADDR_BROADCAST
  /\ last.size = IP_ADDR_STR_LEN
  /\ Len(last.p) = 15
  /\ last.n = last.from

(***************************************************************************)
(* The interface registry.  A struct ip_iface in the heap:                 *)
(*   family, dev, net_next  the embedded struct net_iface (NET_IFACE(i)),  *)
(*   next                   the ip_iface's own list link,                  *)
(*   unicast, netmask, broadcast.                                          *)
(***************************************************************************)
\* memory_alloc(sizeof(*iface)) followed by the stores of lines 107-127
NewIface(uni, mask, bcast) ==
  [family |-> NET_IFACE_FAMILY_IP, dev |-> NULL, net_next |-> NULL,
   next |-> NULL, unicast |-> uni, netmask |-> mask, broadcast |-> bcast]

\* line 127 without its second operand: the network address
Broadcast_NetworkOnly(uni, mask) == AddrAnd(uni, mask)

\* line 127
Broadcast(uni, mask) == AddrOr(AddrAnd(uni, mask), AddrNot(mask))

\* ip_iface_alloc(unicast, netmask); mem_ok is whether memory_alloc succeeds.
\* The result: the interface built (when there is one) and the diagnostic.
ip_iface_alloc(unicast, netmask, mem_ok) ==
  IF ~mem_ok
    THEN [ok |-> FALSE, log |-> <<"error", "memory_alloc() failure">>]
  ELSE LET u == ip_addr_pton(unicast, Uninit)
       IN IF u.ret = -1
            THEN [ok |-> FALSE, log |-> <<"error", "unicast ip cast failure">>]
          ELSE LET m == ip_addr_pton(netmask, Uninit)
               IN IF m.ret = -1
                    THEN [ok |-> FALSE, log |-> <<"error", "netmask cast failure">>]
                  ELSE [ok |-> TRUE, log |-> <<"none">>,
                        iface |-> NewIface(u.n, m.n, Broadcast(u.n, m.n))]

call_iface_alloc(unicast, netmask, mem_ok) ==
  /\ Len(pool) < MaxIfaces
  /\ LET r == ip_iface_alloc(unicast, netmask, mem_ok)
     IN /\ pool' = IF r.ok THEN Append(pool, r.iface) ELSE pool
        /\ last' = [op |-> "ip_iface_alloc", unicast |-> unicast,
                    netmask |-> netmask, mem_ok |-> mem_ok,
                    ret |-> IF r.ok THEN Len(pool) + 1 ELSE NULL, log |-> r.log]
  /\ UNCHANGED <<dev_ifaces, ifaces, regs, input>>

\* the device's interface list, walked through the net_iface links
RECURSIVE DevList(_, _, _)
DevList(heap, entry, fuel) ==
  IF entry = NULL \/ fuel = 0 THEN <<>>
  ELSE <<entry>> \o DevList(heap, heap[entry].net_next, fuel - 1)

\* net_device_add_iface(dev, iface): refuses a second interface of a family;
\* else links the interface at the head of dev->ifaces.
net_device_add_iface(heap, heads, dev, iface) ==
  LET lst == DevList(heap, heads[dev], Len(heap))
  IN IF \E k \in 1..Len(lst) : heap[lst[k]].family = heap[iface].family
       THEN [ret |-> -1, heap |-> heap, heads |-> heads]
       ELSE [ret |-> 0,
             heap |-> [heap EXCEPT ![iface].dev = dev,
                                   ![iface].net_next = heads[dev]],
             heads |-> [heads EXCEPT ![dev] = iface]]

\* lines 144-145: the two stores ip_iface_register makes after the device
\* has accepted the interface
LinkIface(heap, heads, glob, dev, iface) ==
  [heap |-> [heap EXCEPT ![iface].next = heads[dev]],
   heads |-> [heads EXCEPT ![dev] = iface],
   glob |-> glob]

\* ip_iface_register(dev, iface)
ip_iface_register(heap, heads, glob, dev, iface) ==
  LET a == net_device_add_iface(heap, heads, dev, iface)
  IN IF a.ret # 0
       THEN [ret |-> -1, heap |-> heap, heads |-> heads, glob |-> glob,
             log |-> <<"error", "add iface failed">>]
       ELSE LET l == LinkIface(a.heap, a.heads, glob, dev, iface)
            IN [ret |-> 0, heap |-> l.heap, heads |-> l.heads, glob |-> l.glob,
                log |-> <<"info", "registered", dev,
                          ip_addr_ntop(l.heap[iface].unicast, IP_ADDR_STR_LEN),
                          ip_addr_ntop(l.heap[iface].netmask, IP_ADDR_STR_LEN),
                          ip_addr_ntop(l.heap[iface].broadcast, IP_ADDR_STR_LEN)>>]

call_iface_register(dev, iface) ==
  /\ Len(regs) < MaxRegs
  /\ iface \in 1..Len(pool)
  /\ LET r == ip_iface_register(pool, dev_ifaces, ifaces, dev, iface)
     IN /\ pool' = r.heap
        /\ dev_ifaces' = r.heads
        /\ ifaces' = r.glob
        /\ regs' = Append(regs, [dev |-> dev, iface |-> iface, ret |-> r.ret])
        /\ last' = [op |-> "ip_iface_register", dev |-> dev, iface |-> iface,
                    ret |-> r.ret, log |-> r.log]
  /\ UNCHANGED input

\* ip_iface_select(addr): the scan from `ifaces` through the next links.
\* fuel bounds the walk; a walk that outlives it never returns in the code.
RECURSIVE select_loop(_, _, _, _)
select_loop(heap, entry, addr, fuel) ==
  IF entry = NULL THEN NULL
  ELSE IF fuel = 0 THEN -1
  ELSE IF heap[entry].unicast = addr \/ heap[entry].broadcast = addr THEN entry
  ELSE select_loop(heap, heap[entry].next, addr, fuel - 1)

ip_iface_select(heap, glob, addr) ==
  LET r == select_loop(heap, glob, addr, Len(heap) + 1)
  IN [ret |-> r,
      log |-> IF r = NULL
                THEN <<"warn", "not found device which has specified addr">>
                ELSE <<"none">>]

call_iface_select(addr) ==
  /\ LET r == ip_iface_select(pool, ifaces, addr)
     IN last' = [op |-> "ip_iface_select", addr |-> addr, ret |-> r.ret,
                 log |-> r.log]
  /\ UNCHANGED <<pool, dev_ifaces, ifaces, regs, input>>

(***************************************************************************)
(* The ingress handler.  A frame is (data, len, dev): data is the sequence *)
(* of the len bytes received, data[k + 1] being the byte at offset k.      *)
(* struct ip_hdr overlays it: vhl 0, tos 1, total 2-3, id 4-5, offset 6-7, *)
(* ttl 8, protocol 9, sum 10-11, src 12-15, dst 16-19.                     *)
(***************************************************************************)
\* a uint16_t field read at byte offset k, as the (little-endian) host reads it
Field16(data, k) == data[k + 1] + 256 * data[k + 2]

\* an ip_addr_t field read at byte offset k
FieldAddr(data, k) == <<data[k + 1], data[k + 2], data[k + 3], data[k + 4]>>

\* ntoh16 on that host: the two bytes swapped
ntoh16(h) == (h % 256) * 256 + (h \div 256)

\* cksum16(addr, count, init): the 16-bit words summed, an odd last byte
\* added, the carries folded back in, the result complemented
RECURSIVE SumWords(_, _, _)
SumWords(data, k, count) ==
  IF count > 1 THEN Field16(data, k) + SumWords(data, k + 2, count - 2)
  ELSE IF count > 0 THEN data[k + 1]
  ELSE 0

RECURSIVE Fold16(_)
Fold16(sum) ==
  IF sum \div 65536 > 0 THEN Fold16((sum % 65536) + (sum \div 65536)) ELSE sum

cksum16(data, count, init) == 65535 - Fold16(init + SumWords(data, 0, count))

\* net_device_get_iface(dev, family): the first interface of the family in
\* the device's list, or NULL
net_device_get_iface(heap, heads, dev, family) ==
  LET lst == DevList(heap, heads[dev], Len(heap))
      hit == { k \in 1..Len(lst) : heap[lst[k]].family = family }
  IN IF hit = {} THEN NULL
     ELSE lst[CHOOSE k \in hit : \A j \in hit : k <= j]

\* line 187
Version(vhl) == vhl \div 16

\* line 194: hlen = sizeof(*data), the size of one uint8_t
HeaderLen(data) == 1

\* line 202 with the comparison turned round
TotalTooLong_Inverted(len, total) == len > total

\* line 202
TotalTooLong(len, total) == len < total

\* line 209: the extent handed to cksum16
CksumExtent(data, len) == len

\* line 217 without the test of the more-fragments flag
IsFragment_OffsetOnly(offset) == BitAnd(offset, 8191) # 0

\* line 217
IsFragment(offset) == BitAnd(offset, 8192) # 0 \/ BitAnd(offset, 8191) # 0

\* line 229 without the comparison with the interface's broadcast address
DstRefused_NoBroadcast(dst, iface) ==
  dst # iface.unicast /\ dst # IP_ADDR_BROADCAST

\* line 229
DstRefused(dst, iface) ==
  dst # iface.unicast /\ dst # IP_ADDR_BROADCAST /\ dst # iface.broadcast

\* one return of ip_input: the step it returned at, the diagnostic it gave,
\* the header fields it had read by then
Return(stage, log, read) ==
  [stage |-> stage, log |-> log, read |-> read, accepted |-> stage = "handoff"]

ip_input(heap, heads, data, len, dev) ==
  IF len < IP_HDR_SIZE_MIN
    THEN Return("len", <<"error", "header size is too short">>, {})
  ELSE IF Version(data[1]) # IP_VERSION_IPV4
    THEN Return("version", <<"error", "version must be 4">>, {"vhl"})
  ELSE IF len < HeaderLen(data)
    THEN Return("hlen", <<"error", "header data is too short">>, {"vhl"})
  ELSE LET total == ntoh16(Field16(data, 2))
       IN IF TotalTooLong(len, total)
            THEN Return("total", <<"error", "header total is too short">>,
                        {"vhl", "total"})
          ELSE IF cksum16(data, CksumExtent(data, len), 0) # 0
            THEN Return("cksum", <<"error", "checksum validation failed">>,
                        {"vhl", "total", "all"})
          ELSE IF IsFragment(ntoh16(Field16(data, 6)))
            THEN Return("frag", <<"error", "flagments does not support">>,
                        {"vhl", "total", "all", "offset"})
          ELSE LET iface == net_device_get_iface(heap, heads, dev,
                                                 NET_IFACE_FAMILY_IP)
               IN IF iface = NULL
                    THEN Return("iface", <<"error", "coudln't get iface">>,
                                {"vhl", "total", "all", "offset"})
                  ELSE IF DstRefused(FieldAddr(data, 16), heap[iface])
                    THEN Return("dst", <<"none">>,
                                {"vhl", "total", "all", "offset", "dst"})
                  ELSE Return("handoff",
                              <<"debug", dev,
                                ip_addr_ntop(heap[iface].unicast, IP_ADDR_STR_LEN),
                                data[10], total>>,
                              {"vhl", "total", "all", "offset", "dst", "protocol"})

\* the link layer hands the awaiting frame to ip_input
call_input ==
  /\ input.kind = "frame"
  /\ LET r == ip_input(pool, dev_ifaces, input.data, input.len, input.dev)
     IN last' = [op |-> "ip_input", data |-> input.data, len |-> input.len,
                 dev |-> input.dev, stage |-> r.stage, log |-> r.log,
                 read |-> r.read, accepted |-> r.accepted]
  /\ input' = NoInput
  /\ UNCHANGED <<pool, dev_ifaces, ifaces, regs>>

(***************************************************************************)
(* The frames offered to ip_input: a 20-byte struct ip_hdr followed by     *)
(* bytes of one value (options, payload, link-layer padding), cut to len.  *)
(***************************************************************************)
Hi(w) == w \div 256
Lo(w) == w % 256

\* struct ip_hdr, lines 10-23, the multi-byte fields in network byte order;
\* sum is given as the two bytes to store
Header(vhl, total, offset, sum, dst) ==
  <<vhl, 0, Hi(total), Lo(total), 0, 0, Hi(offset), Lo(offset), 64, 1,
    sum[1], sum[2], 10, 0, 0, 1, dst[1], dst[2], dst[3], dst[4]>>

Fill(b, n) == [i \in 1..n |-> b]

\* the header size the header itself declares: IHL words of 4 bytes
DeclaredHeaderLen(vhl) == (vhl % 16) * 4

\* the sender's checksum bytes: the complement of the sum over the first
\* `extent` bytes with the checksum field zero, stored in host order
SumBytes(bytes, extent) ==
  LET c == cksum16(bytes, extent, 0) IN <<Lo(c), Hi(c)>>

Frame(vhl, total, offset, dst, b, len, over, dev) ==
  LET raw == SubSeq(Header(vhl, total, offset, <<0, 0>>, dst) \o Fill(b, len), 1, len)
      ext == IF over = "buffer" THEN len ELSE Min(DeclaredHeaderLen(vhl), len)
      good == SumBytes(raw, ext)
      sum == IF over = "wrong" THEN <<(good[1] + 1) % 256, good[2]>> ELSE good
  IN [kind |-> "frame", dev |-> dev, len |-> len,
      data |-> IF len >= 12 THEN [raw EXCEPT ![11] = sum[1], ![12] = sum[2]]
               ELSE raw]

(***************************************************************************)
(* Set-up and lookup: interfaces are allocated from texts, registered on   *)
(* devices and looked up by address; one frame awaits and is handed to     *)
(* ip_input at any point.                                                  *)
(***************************************************************************)
UnicastTexts ==
  { <<"1","9","2",".","1","6","8",".","1",".","1","0">>,
    <<"1",".","2",".","3">> }

NetmaskTexts ==
  { <<"2","5","5",".","2","5","5",".","2","5","5",".","0">>,
    <<"2","5","5",".","1","0","0",".","0",".","0">>,
    <<"2","5","5",".","2","5","6",".","0",".","0">> }

Unicast1 == <<192, 168, 1, 10>>
Broadcast1 == <<192, 168, 1, 255>>
Other1 == <<192, 168, 1, 11>>

SelectAddrs == { Unicast1, Broadcast1, Other1 }

InitIface ==
  /\ InitRegistry
  /\ input = Frame(69, 20, 0, Unicast1, 0, 20, "header", "net0")

NextIface ==
  \/ \E u \in UnicastTexts, m \in NetmaskTexts, ok \in BOOLEAN :
        call_iface_alloc(u, m, ok)
  \/ \E d \in Devices, i \in 1..MaxIfaces : call_iface_register(d, i)
  \/ \E a \in SelectAddrs : call_iface_select(a)
  \/ call_input

SpecIface == InitIface /\ [][NextIface]_vars

(***************************************************************************)
(* Ingress: interfaces 192.168.1.10/24 are allocated and the first one is  *)
(* registered on net0, and one frame awaits on net0; it is handed to       *)
(* ip_input at any point, before or after net0 has got its interface.      *)
(***************************************************************************)
InitInput ==
  /\ InitRegistry
  /\ \E vhl \in {69, 70, 101}, total \in {20, 24, 5120},
        offset \in {0, 16384, 8192, 1},
        dst \in {Unicast1, Broadcast1, IP_ADDR_BROADCAST, Other1},
        b \in {0, 1}, len \in (IP_HDR_SIZE_MIN - 1)..MaxLen,
        over \in {"header", "buffer", "wrong"} :
        input = Frame(vhl, total, offset, dst, b, len, over, "net0")

NextInput ==
  \/ call_iface_alloc(<<"1","9","2",".","1","6","8",".","1",".","1","0">>,
                      <<"2","5","5",".","2","5","5",".","2","5","5",".","0">>,
                      TRUE)
  \/ call_iface_register("net0", 1)
  \/ call_input

SpecInput == InitInput /\ [][NextInput]_vars

(***************************************************************************)
(* Properties of the registry.                                             *)
(***************************************************************************)
\* the interfaces of the list ip_iface_select scans: from `ifaces` through
\* the next links
RECURSIVE GlobalList(_, _, _)
GlobalList(heap, entry, fuel) ==
  IF entry = NULL \/ fuel = 0 THEN <<>>
  ELSE <<entry>> \o GlobalList(heap, heap[entry].next, fuel - 1)

InSeq(x, seq) == \E k \in 1..Len(seq) : seq[k] = x

InDeviceList(d, i) == InSeq(i, DevList(pool, dev_ifaces[d], Len(pool)))
InGlobalList(i) == InSeq(i, GlobalList(pool, ifaces, Len(pool)))

\* the registrations of the log that returned success
Registered == { k \in 1..Len(regs) : regs[k].ret = 0 }

\* C2: every interface whose registration returned success is in its
\* device's interface list and in the global list that ip_iface_select scans;
\* an interface that no registration accepted is in neither.
C2_RegisteredInBothLists ==
  /\ \A k \in Registered :
        InDeviceList(regs[k].dev, regs[k].iface) /\ InGlobalList(regs[k].iface)
  /\ \A i \in 1..Len(pool) :
        (\A k \in Registered : regs[k].iface # i)
          => (~InGlobalList(i) /\ \A d \in Devices : ~InDeviceList(d, i))

\* The half of C2 that the code keeps: the device's list holds every
\* interface registered on it, and no interface that was never accepted.
C2_DeviceListHalf ==
  /\ \A k \in Registered : InDeviceList(regs[k].dev, regs[k].iface)
  /\ \A i \in 1..Len(pool) :
        (\A k \in Registered : regs[k].iface # i)
          => \A d \in Devices : ~InDeviceList(d, i)

\* the successful registrations whose interface owns the address a
Owners(a) ==
  { k \in Registered :
      pool[regs[k].iface].unicast = a \/ pool[regs[k].iface].broadcast = a }

\* C3: ip_iface_select(a) returns NULL exactly when no registered interface
\* has unicast or broadcast equal to a, and otherwise the first registered
\* interface that has.
C3_SelectFirstRegisteredMatch ==
  last.op = "ip_iface_select" =>
    LET own == Owners(last.addr)
    IN IF own = {} THEN last.ret = NULL
       ELSE last.ret = regs[CHOOSE k \in own : \A j \in own : k <= j].iface

\* bit k (0..31) of an address, bit 0 being the low bit of its first byte
Bit(a, k) == (a[(k \div 8) + 1] \div (2 ^ (k % 8))) % 2

\* broadcast == (unicast & netmask) | (~netmask), bit by bit on 32 bits
BroadcastLaw(i) ==
  \A k \in 0..31 :
    Bit(i.broadcast, k) =
      IF Bit(i.netmask, k) = 1 THEN Bit(i.unicast, k) ELSE 1

\* C9, state part: every interface ever allocated satisfies the broadcast law;
\* the interface ip_iface_alloc returned holds the addresses its two texts
\* denote; a text that fails to parse gives NULL, and two texts that parse
\* give an interface whenever memory_alloc gave the memory.
C9_State ==
  /\ \A i \in 1..Len(pool) : BroadcastLaw(pool[i])
  /\ last.op = "ip_iface_alloc" =>
       LET bad == ip_addr_pton(last.unicast, Uninit).ret = -1
                  \/ ip_addr_pton(last.netmask, Uninit).ret = -1
       IN /\ bad => last.ret = NULL
          /\ (~bad /\ last.mem_ok) => last.ret # NULL
          /\ last.ret # NULL =>
               /\ last.ret = Len(pool)
               /\ Render(pool[last.ret].unicast) = last.unicast
               /\ Render(pool[last.ret].netmask) = last.netmask

\* C9, step part: no operation changes the unicast, netmask or broadcast of an
\* allocated interface, and an ip_iface_alloc that returns NULL leaves no
\* interface behind.
C9_Step ==
  /\ Len(pool') >= Len(pool)
  /\ \A i \in 1..Len(pool) :
        /\ pool'[i].unicast = pool[i].unicast
        /\ pool'[i].netmask = pool[i].netmask
        /\ pool'[i].broadcast = pool[i].broadcast
  /\ (last'.op = "ip_iface_alloc" /\ last'.ret = NULL) => pool' = pool

\* C9: ip_iface_alloc returns an interface with
\* broadcast == (unicast & netmask) | (~netmask) for valid texts and NULL with
\* no interface when a text fails to parse, and the equality holds of every
\* interface in every later state, whatever operation is made.
C9_BroadcastInvariant == [](C9_State) /\ [][C9_Step]_vars

\* C9's case: an interface allocated with the netmask 255.100.0.0 (its
\* broadcast is 192.187.255.255) has since been registered, and a lookup made.
C9_Witness ==
  /\ last.op = "ip_iface_select"
  /\ \E k \in Registered :
        /\ pool[regs[k].iface].netmask = <<255, 100, 0, 0>>
        /\ pool[regs[k].iface].broadcast = <<192, 187, 255, 255>>

(***************************************************************************)
(* Properties of ip_input.  The header fields are read here straight off   *)
(* the wire format: 16-bit fields high byte first.                         *)
(***************************************************************************)
Wire16(data, k) == data[k + 1] * 256 + data[k + 2]

WireVersion(data) == data[1] \div 16
WireTotal(data) == Wire16(data, 2)
WireMoreFragments(data) == (data[7] \div 32) % 2 = 1
WireFragmentOffset(data) == (data[7] % 32) * 256 + data[8]
WireDst(data) == <<data[17], data[18], data[19], data[20]>>

\* the interface bound to the device the frame came in on, or NULL
BoundIface == net_device_get_iface(pool, dev_ifaces, last.dev, NET_IFACE_FAMILY_IP)

\* the destination is the interface's unicast, its broadcast, or 255.255.255.255
ForUs(dst, i) == dst = i.unicast \/ dst = i.broadcast \/ dst = IP_ADDR_BROADCAST

\* the frame got through every check of ip_input up to the fragment check
Validated == last.stage \in {"iface", "dst", "handoff"}

\* C1: a frame of length >= 20 and version 4, whose declared total length is
\* at most the length, which is no fragment, whose destination matches the
\* receiving device's interface and whose header (the IHL words it declares,
\* lying within the total length) sums to zero, is accepted, whatever bytes
\* follow the header and whatever padding follows the total length.
C1_ValidHeaderAccepted ==
  (/\ last.op = "ip_input"
   /\ last.len >= IP_HDR_SIZE_MIN
   /\ WireVersion(last.data) = IP_VERSION_IPV4
   /\ DeclaredHeaderLen(last.data[1]) >= IP_HDR_SIZE_MIN
   /\ DeclaredHeaderLen(last.data[1]) <= WireTotal(last.data)
   /\ WireTotal(last.data) <= last.len
   /\ ~WireMoreFragments(last.data)
   /\ WireFragmentOffset(last.data) = 0
   /\ BoundIface # NULL
   /\ ForUs(WireDst(last.data), pool[BoundIface])
   /\ cksum16(last.data, DeclaredHeaderLen(last.data[1]), 0) = 0)
  => last.accepted

\* C4: a frame that passes the validation checks on a device with a bound
\* interface I is accepted exactly when its destination is I's unicast, I's
\* broadcast or 255.255.255.255, and is otherwise dropped at the address
\* match with no diagnostic; with no bound interface it is dropped.
C4_AddressMatching ==
  (last.op = "ip_input" /\ Validated) =>
    IF BoundIface = NULL
      THEN ~last.accepted /\ last.stage = "iface"
      ELSE /\ last.accepted <=> ForUs(WireDst(last.data), pool[BoundIface])
           /\ ~ForUs(WireDst(last.data), pool[BoundIface])
                => (last.stage = "dst" /\ last.log = <<"none">>)

\* C4's case: a frame to the interface's broadcast address 192.168.1.255 was
\* accepted.
C4_Witness ==
  /\ last.op = "ip_input"
  /\ last.accepted
  /\ BoundIface # NULL
  /\ WireDst(last.data) = pool[BoundIface].broadcast
  /\ WireDst(last.data) # pool[BoundIface].unicast
  /\ WireDst(last.data) # IP_ADDR_BROADCAST

\* C5: a buffer shorter than 20 bytes is rejected by the first check with no
\* header field read; a buffer whose declared total length exceeds its length
\* never reaches the hand-off; a buffer longer than its declared total length
\* is not rejected by the total-length check.
C5_LengthConsistency ==
  last.op = "ip_input" =>
    /\ last.len < IP_HDR_SIZE_MIN =>
         (last.stage = "len" /\ last.read = {} /\ ~last.accepted)
    /\ (last.len >= IP_HDR_SIZE_MIN /\ WireTotal(last.data) > last.len) =>
         (~last.accepted /\ last.stage \in {"version", "total"})
    /\ (last.len >= IP_HDR_SIZE_MIN /\ WireTotal(last.data) < last.len) =>
         last.stage # "total"

\* C5's case: a version-4 frame declaring a total length of 24 in a buffer of
\* fewer bytes was rejected by the total-length check.
C5_Witness ==
  /\ last.op = "ip_input"
  /\ last.len >= IP_HDR_SIZE_MIN
  /\ WireTotal(last.data) = 24
  /\ WireTotal(last.data) > last.len
  /\ last.stage = "total"
  /\ last.log = <<"error", "header total is too short">>

\* C6: a frame whose flags/fragment-offset field has the more-fragments flag
\* set or a nonzero 13-bit offset is rejected before interface resolution,
\* whether or not its checksum is valid.
C6_FragmentsRejected ==
  (/\ last.op = "ip_input"
   /\ WireMoreFragments(last.data) \/ WireFragmentOffset(last.data) # 0)
  => (~last.accepted /\ last.stage \notin {"iface", "dst", "handoff"})

\* C6's case: a frame with the more-fragments flag set and a checksum the
\* checksum check let through was rejected by the fragment check.
C6_Witness ==
  /\ last.op = "ip_input"
  /\ WireMoreFragments(last.data)
  /\ WireFragmentOffset(last.data) = 0
  /\ last.stage = "frag"
  /\ last.log = <<"error", "flagments does not support">>

\* C10: a frame of length >= 20 and version 4 whose header-length field times
\* 4 exceeds the received length is rejected at the header-length check.
C10_HeaderLengthChecked ==
  (/\ last.op = "ip_input"
   /\ last.len >= IP_HDR_SIZE_MIN
   /\ WireVersion(last.data) = IP_VERSION_IPV4
   /\ DeclaredHeaderLen(last.data[1]) > last.len)
  => last.stage = "hlen"

====
